---- MODULE Spec2Model ----
(***************************************************************************)
(* craftbg-backend, src/server.ts: an Express relay with two image         *)
(* endpoints, POST /api/remove-bg and POST /api/enhance-image, behind a    *)
(* rate limiter and a multer upload filter.                                *)
(*                                                                         *)
(* JavaScript values are tagged records, so that property access,          *)
(* truthiness and the exceptions of the handlers can be computed.  A       *)
(* string is a sequence of tokens: one token per character where the       *)
(* characters matter (base64 text, the API key), one token for a fixed     *)
(* message.                                                                *)
(***************************************************************************)
EXTENDS Integers, Sequences, FiniteSets, TLC

VARIABLES
  RAPIDAPI_KEY,   \* process.env.RAPIDAPI_KEY, read-only after startup
  hits,           \* the limiter's count of requests to /api/ in the window
  req             \* the requests in progress, one per slot

vars == <<RAPIDAPI_KEY, hits, req>>

\* ------------------------------------------------------------------ values
Undefined == [t |-> "undefined"]
Null == [t |-> "null"]
Str(s) == [t |-> "string", chars |-> s]
Num(n) == [t |-> "number", num |-> n]
Arr(items) == [t |-> "array", items |-> items]
Obj(props) == [t |-> "object", props |-> props]
Buf(bytes) == [t |-> "buffer", bytes |-> bytes]

\* JavaScript ToBoolean, as used by `!x` and `a || b`.
Falsy(v) ==
  \/ v.t \in {"undefined", "null"}
  \/ v.t = "string" /\ v.chars = <<>>
  \/ v.t = "number" /\ v.num = 0

\* `a || b`
OrElse(a, b) == IF Falsy(a) THEN b ELSE a

\* v.name and v[i] throw a TypeError on undefined and null.
Throws(v) == v.t \in {"undefined", "null"}

\* v.name for a value that is not undefined or null. props is a set of
\* <<name, value>> pairs.
Get(v, name) ==
  IF v.t = "object" /\ \E p \in v.props : p[1] = name
  THEN (CHOOSE p \in v.props : p[1] = name)[2]
  ELSE Undefined

\* v[0] for a value that is not undefined or null.
First(v) ==
  IF v.t = "array" /\ Len(v.items) > 0 THEN v.items[1]
  ELSE IF v.t = "string" /\ Len(v.chars) > 0 THEN Str(<<v.chars[1]>>)
  ELSE Get(v, "0")

\* v?.name
OptGet(v, name) == IF Throws(v) THEN Undefined ELSE Get(v, name)

\* ------------------------------------------------------------------ base64
B64Chars ==
  << "A","B","C","D","E","F","G","H","I","J","K","L","M","N","O","P",
     "Q","R","S","T","U","V","W","X","Y","Z","a","b","c","d","e","f",
     "g","h","i","j","k","l","m","n","o","p","q","r","s","t","u","v",
     "w","x","y","z","0","1","2","3","4","5","6","7","8","9","+","/" >>

IsB64Char(c) == \E i \in 1..64 : B64Chars[i] = c

B64Index(c) == (CHOOSE i \in 1..64 : B64Chars[i] = c) - 1

\* The characters a base64 decoder of Node reads: it skips a character
\* outside the alphabet and stops at the first "=".
RECURSIVE B64Digits(_)
B64Digits(s) ==
  IF s = <<>> \/ Head(s) = "=" THEN <<>>
  ELSE IF IsB64Char(Head(s)) THEN <<B64Index(Head(s))>> \o B64Digits(Tail(s))
  ELSE B64Digits(Tail(s))

\* Groups of four 6-bit digits give three bytes; a rest of two digits gives
\* one byte, of three digits two bytes, of one digit none.
RECURSIVE B64Bytes(_)
B64Bytes(d) ==
  IF Len(d) < 2 THEN <<>>
  ELSE IF Len(d) = 2 THEN << d[1] * 4 + d[2] \div 16 >>
  ELSE IF Len(d) = 3
    THEN << d[1] * 4 + d[2] \div 16, (d[2] % 16) * 16 + d[3] \div 4 >>
  ELSE << d[1] * 4 + d[2] \div 16,
          (d[2] % 16) * 16 + d[3] \div 4,
          (d[3] % 4) * 64 + d[4] >> \o B64Bytes(SubSeq(d, 5, Len(d)))

BadBufferFrom(v) == Buf(B64Digits(v.chars))
\* Buffer.from(v, 'base64') for a string v.
BufferFrom(v) == Buf(B64Bytes(B64Digits(v.chars)))

\* RFC 4648 encoding of a byte sequence, the reference for the decoding.
RECURSIVE Base64Encode(_)
Base64Encode(b) ==
  IF b = <<>> THEN <<>>
  ELSE IF Len(b) = 1
    THEN << B64Chars[b[1] \div 4 + 1], B64Chars[(b[1] % 4) * 16 + 1], "=", "=" >>
  ELSE IF Len(b) = 2
    THEN << B64Chars[b[1] \div 4 + 1],
            B64Chars[(b[1] % 4) * 16 + b[2] \div 16 + 1],
            B64Chars[(b[2] % 16) * 4 + 1], "=" >>
  ELSE << B64Chars[b[1] \div 4 + 1],
          B64Chars[(b[1] % 4) * 16 + b[2] \div 16 + 1],
          B64Chars[(b[2] % 16) * 4 + b[3] \div 64 + 1],
          B64Chars[(b[3] % 64) + 1] >> \o Base64Encode(SubSeq(b, 4, Len(b)))

\* ------------------------------------------------------------ configuration
\* process.env.RAPIDAPI_KEY: unset, empty, or one of two keys.
KeyA == Str(<< "k","e","y","-","A","-","1","2","3","4","5","6" >>)
KeyB == Str(<< "k","e","y","-","B","-","6","5","4","3","2","1" >>)
Keys == {Undefined, Str(<<>>), KeyA, KeyB}

\* RAPIDAPI_KEY.substring(0, 10) + '...'
apiKeyPrefix(key) ==
  Str(SubSeq(key.chars, 1, IF Len(key.chars) < 10 THEN Len(key.chars) ELSE 10)
      \o <<"...">>)

\* ------------------------------------------------------------- rate limiter
max == 50

\* express-rate-limit refuses a request when the hits of the window, this
\* request included, exceed max.
limiterRefuses(totalHits) == totalHits > max

\* ------------------------------------------------------------------- upload
fileSize == 10 * 1024 * 1024

BadAllowedTypes == {"image/jpeg", "image/png", "image/jpg", "image/webp", "image/gif"}
allowedTypes == {"image/jpeg", "image/png", "image/jpg", "image/webp"}

fileFilter(file) == file.mimetype \in allowedTypes

\* multer (busboy) reports LIMIT_FILE_SIZE when the file has more bytes than
\* limits.fileSize.
withinFileSize(file) == file.size <= fileSize

NoFile == [mimetype |-> "", size |-> 0]

MimeTypes == {"image/jpeg", "image/png", "image/jpg", "image/webp", "image/gif"}
Sizes == {2048, fileSize, fileSize + 1}
Uploads == {NoFile} \cup [mimetype : MimeTypes, size : Sizes]

\* ---------------------------------------------------------------- responses
\* res.status(status).json({ error, details, message }); JSON.stringify
\* drops a field whose value is undefined.
Json(status, error, details, message) ==
  [ status |-> status, contentType |-> "application/json",
    disposition |-> "", filename |-> "",
    body |-> [t |-> "json", error |-> error, details |-> details,
              message |-> message] ]

\* res.status(status).send(text): Express sends a string as text/html.
Text(status, text) ==
  [ status |-> status, contentType |-> "text/html",
    disposition |-> "", filename |-> "", body |-> text ]

\* res.set('Content-Type', ...); res.set('Content-Disposition',
\* `attachment; filename="<name>"`); res.send(buffer). The status is 200.
Image(contentType, filename, buffer) ==
  [ status |-> 200, contentType |-> contentType,
    disposition |-> "attachment", filename |-> filename, body |-> buffer ]

\* ------------------------------------------------------------------- errors
\* What a rejected axios call, or a statement that throws, hands to the catch
\* block: error.response, error.code and error.message. cause records the
\* event behind the error and is not read by the handlers.
Response(status, data) == [t |-> "response", status |-> status, data |-> data]

HttpError(status, data, code) ==
  [ cause |-> "http", response |-> Response(status, data), code |-> Str(<<code>>),
    message |-> Str(<<"Request failed with status code">>) ]

\* axios rejects with ECONNABORTED when its timeout option expires.
TimeoutError ==
  [ cause |-> "timeout", response |-> Undefined, code |-> Str(<<"ECONNABORTED">>),
    message |-> Str(<<"timeout exceeded">>) ]

\* Node's socket errors: the upstream is unreachable.
Unreachable == {"ECONNREFUSED", "ENOTFOUND", "ECONNRESET"}

SocketError(code) ==
  [ cause |-> "unreachable", response |-> Undefined, code |-> Str(<<code>>),
    message |-> Str(<<"connect", code>>) ]

\* A TypeError thrown inside the try block.
TypeError(code, message) ==
  [ cause |-> "TypeError", response |-> Undefined, code |-> code,
    message |-> Str(<<message>>) ]

Statuses == {400, 401, 403, 404, 429, 500, 503}

\* axios settle(): ERR_BAD_REQUEST for 4xx, ERR_BAD_RESPONSE for 5xx.
SettleCode(status) == IF status < 500 THEN "ERR_BAD_REQUEST" ELSE "ERR_BAD_RESPONSE"

\* The bodies of upstream error responses.
ErrorDatas ==
  { Str(<<>>), Null, Obj({ <<"message", Str(<<"upstream: request rejected">>)>> }) }

HttpErrors ==
  { HttpError(s, d, c) : s \in Statuses, d \in ErrorDatas,
                         c \in {"ERR_BAD_REQUEST", "ERR_BAD_RESPONSE", "ECONNABORTED"} }

AxiosErrors ==
  { e \in HttpErrors :
      e.code \in {Str(<<SettleCode(e.response.status)>>), Str(<<"ECONNABORTED">>)} }
  \cup {TimeoutError} \cup { SocketError(c) : c \in Unreachable }

\* ---------------------------------------------------------------- endpoints
RemoveBg == "/api/remove-bg"
EnhanceImage == "/api/enhance-image"
Endpoints == {RemoveBg, EnhanceImage}

\* let errorMessage = '... failed'
failedMessage(ep) ==
  IF ep = RemoveBg THEN "Background removal failed" ELSE "Image enhancement failed"

BadErrorMessage(ep, status) ==
  IF status = 400 THEN "Invalid image format or corrupted file"
  ELSE IF status = 401
    THEN "API authentication error. Please check your API key"
  ELSE IF status = 429 THEN "API rate limit exceeded. Please try again later"
  ELSE IF status = 500 THEN "AI processing error. Please try again"
  ELSE IF status = 503
    THEN "Service temporarily unavailable. Please try again in a moment"
  ELSE failedMessage(ep)
\* if (status === 400) ... else if (status === 503) ...
errorMessage(ep, status) ==
  IF status = 400 THEN "Invalid image format or corrupted file"
  ELSE IF status = 401 \/ status = 403
    THEN "API authentication error. Please check your API key"
  ELSE IF status = 429 THEN "API rate limit exceeded. Please try again later"
  ELSE IF status = 500 THEN "AI processing error. Please try again"
  ELSE IF status = 503
    THEN "Service temporarily unavailable. Please try again in a moment"
  ELSE failedMessage(ep)

unableMessage(ep) ==
  IF ep = RemoveBg
  THEN "Unable to connect to background removal service. Please try again later."
  ELSE "Unable to connect to image enhancement service. Please try again later."

tooLongMessage == "The AI processing took too long. Please try with a smaller image."

BadResponseBranch(ep, error) ==
  Json(error.response.status,
       Str(<<errorMessage(ep, error.response.status)>>),
       OrElse(OptGet(error.response.data, "message"),
              Str(error.message.chars \o apiKeyPrefix(RAPIDAPI_KEY).chars)),
       Undefined)
\* if (error.response) { ... return res.status(status).json(...) }
responseBranch(ep, error) ==
  Json(error.response.status,
       Str(<<errorMessage(ep, error.response.status)>>),
       OrElse(OptGet(error.response.data, "message"), error.message),
       Undefined)

\* if (error.code === 'ECONNABORTED') { ... }
timeoutBranch(ep, error) ==
  Json(504, Str(<<"Request timeout">>), Undefined, Str(<<tooLongMessage>>))

\* if (error.code === 'ECONNREFUSED') { ... }
refusedBranch(ep, error) ==
  Json(503, Str(<<"Service unavailable">>), Undefined, Str(<<unableMessage(ep)>>))

\* res.status(500).json({ error: 'Internal server error', message })
unexpectedBranch(ep, error) ==
  Json(500, Str(<<"Internal server error">>), Undefined, error.message)

BadCatch(ep, error) ==
  IF error.response # Undefined THEN responseBranch(ep, error)
  ELSE IF error.code = Str(<<"ECONNREFUSED">>) THEN refusedBranch(ep, error)
  ELSE unexpectedBranch(ep, error)
\* The catch block of a handler.
catch(ep, error) ==
  IF error.response # Undefined THEN responseBranch(ep, error)
  ELSE IF error.code = Str(<<"ECONNABORTED">>) THEN timeoutBranch(ep, error)
  ELSE IF error.code = Str(<<"ECONNREFUSED">>) THEN refusedBranch(ep, error)
  ELSE unexpectedBranch(ep, error)

\* ------------------------------------------------------------ handler steps
\* The result of running a handler up to its next await or its end: a
\* response sent, an exception thrown into the catch block, or an outbound
\* call issued.
Respond(resp) == [t |-> "respond", resp |-> resp]
Throw(error) == [t |-> "throw", error |-> error]
Call(call) == [t |-> "call", call |-> call]

RAPIDAPI_HOST == "background-removal4.p.rapidapi.com"
ENHANCER_HOST == "ai-face-enhancer.p.rapidapi.com"

removeTimeout == 60000
enhanceTimeout == 120000
downloadTimeout == 60000

\* axios.post(`https://${host}/<path>`, formData, { headers, timeout })
Post(ep, file, key) ==
  [ method |-> "POST",
    url |-> IF ep = RemoveBg THEN Str(<<"https://", RAPIDAPI_HOST, "/v1/results">>)
            ELSE Str(<<"https://", ENHANCER_HOST, "/face/editing/enhance-face">>),
    timeout |-> IF ep = RemoveBg THEN removeTimeout ELSE enhanceTimeout,
    apiKey |-> key, image |-> file ]

\* axios.get(enhancedImageUrl, { responseType: 'arraybuffer', timeout })
Download(url) ==
  [ method |-> "GET", url |-> url, timeout |-> downloadTimeout,
    apiKey |-> Undefined, image |-> NoFile ]

BadEntry(ep, file, key) ==
  IF Falsy(key)
  THEN Respond(Json(500, Str(<<"API key not configured">>), Undefined, Undefined))
  ELSE IF file = NoFile
  THEN Respond(Json(400, Str(<<"No file uploaded">>), Undefined, Undefined))
  ELSE Call(Post(ep, file, key))
NoKeyCheckEntry(ep, file, key) ==
  IF file = NoFile
  THEN Respond(Json(400, Str(<<"No file uploaded">>), Undefined, Undefined))
  ELSE Call(Post(ep, file, key))
\* From the start of the try block to the await of axios.post.
entry(ep, file, key) ==
  IF file = NoFile
  THEN Respond(Json(400, Str(<<"No file uploaded">>), Undefined, Undefined))
  ELSE IF Falsy(key)
  THEN Respond(Json(500, Str(<<"API key not configured">>), Undefined, Undefined))
  ELSE Call(Post(ep, file, key))

\* Buffer.from(base64Image, 'base64'): an array gives its elements as bytes,
\* undefined, null, a number and a plain object throw.
decode(base64Image) ==
  IF base64Image.t = "string" THEN Respond(
       Image("image/png", "removed-bg-<now>.png", BufferFrom(base64Image)))
  ELSE IF base64Image.t = "array" THEN Respond(
       Image("image/png", "removed-bg-<now>.png",
             Buf([i \in 1..Len(base64Image.items) |-> base64Image.items[i].num % 256])))
  ELSE Throw(TypeError(Str(<<"ERR_INVALID_ARG_TYPE">>),
                       "The first argument must be of type string"))

\* /api/remove-bg from the result of axios.post to the end of the try block.
removeBgExtract(data) ==
  IF Throws(data)
  THEN Throw(TypeError(Undefined, "Cannot read properties (reading 'results')"))
  ELSE LET results == Get(data, "results") IN
    IF Falsy(results) \/ Falsy(First(results))
       \/ Falsy(Get(First(results), "entities"))
       \/ Falsy(First(Get(First(results), "entities")))
    THEN Respond(Json(500, Str(<<"Invalid API response format">>),
                      Undefined, Undefined))
    ELSE decode(Get(First(Get(First(results), "entities")), "image"))

BadEnhanceEnvelope(data) ==
  IF Throws(data)
  THEN Throw(TypeError(Undefined, "Cannot read properties (reading 'error_detail')"))
  ELSE IF Get(data, "error_code") # Num(0)
  THEN Respond(Json(500, Str(<<"Image enhancement failed">>),
                    OptGet(Get(data, "error_detail"), "message"), Undefined))
  ELSE Call(Download(OptGet(Get(data, "data"), "image_url")))
\* /api/enhance-image from the result of axios.post to the await of
\* axios.get.
enhanceEnvelope(data) ==
  IF Throws(data)
  THEN Throw(TypeError(Undefined, "Cannot read properties (reading 'error_detail')"))
  ELSE IF Get(data, "error_code") # Num(0)
  THEN Respond(Json(500, Str(<<"Image enhancement failed">>),
                    OptGet(Get(data, "error_detail"), "message"), Undefined))
  ELSE LET enhancedImageUrl == OptGet(Get(data, "data"), "image_url") IN
    IF Falsy(enhancedImageUrl)
    THEN Respond(Json(500, Str(<<"No enhanced image URL returned">>),
                      Undefined, Undefined))
    ELSE Call(Download(enhancedImageUrl))

\* /api/enhance-image from the result of axios.get to the end of the try
\* block.
enhanceSend(data) == Respond(Image("image/jpeg", "enhanced-<now>.jpg", data))

\* app.use((err, req, res, next) => ...): the error handler middleware.
errorHandler(message) ==
  Json(500, OrElse(message, Str(<<"Internal server error">>)), Undefined, Undefined)

\* The limiter's refusal: res.status(429).send(message).
limiterResponse == Text(429, Str(<<"Too many requests, please try again later.">>))

\* app.get('/') and the 404 handler.
health == [ status |-> 200, contentType |-> "application/json",
            disposition |-> "", filename |-> "",
            body |-> [t |-> "status", status |-> Str(<<"OK">>)] ]
notFound == Json(404, Str(<<"Endpoint not found">>), Undefined, Undefined)

\* ------------------------------------------------------------------- inputs
\* { results: [ { entities: [ entity ] } ] }
Removal(entity) ==
  Obj({ <<"results", Arr(<< Obj({ <<"entities", Arr(<<entity>>)>> }) >>)>> })

Entity(image) == Obj({ <<"image", image>> })

\* Base64 texts: "ABC", the byte 255, "AB", and the empty string.
Base64Images ==
  { Str(<<"Q", "U", "J", "D">>), Str(<<"/", "w", "=", "=">>),
    Str(<<"Q", "U", "I", "=">>), Str(<<>>) }

\* The bodies a successful POST to the removal provider can carry.
RemoveBodies ==
  { Str(<<>>), Null, Obj({}),
    Obj({ <<"results", Arr(<<>>)>> }),
    Obj({ <<"results", Arr(<< Obj({}) >>)>> }),
    Obj({ <<"results", Arr(<< Obj({ <<"entities", Arr(<<>>)>> }) >>)>> }),
    Removal(Obj({})), Removal(Entity(Null)), Removal(Entity(Num(5))),
    Removal(Entity(Arr(<<Num(65)>>))) }
  \cup { Removal(Entity(i)) : i \in Base64Images }

\* { error_code, error_detail: { message }, data: { image_url } }
ImageUrl == Str(<<"https://cdn.example/enhanced.jpg">>)

EnhanceBodies ==
  { Str(<<>>), Null, Obj({}),
    Obj({ <<"error_code", Num(1)>> }),
    Obj({ <<"error_code", Num(1)>>,
          <<"error_detail", Obj({ <<"message", Str(<<"upstream: no face found">>)>> })>> }),
    Obj({ <<"error_code", Num(0)>> }),
    Obj({ <<"error_code", Num(0)>>, <<"data", Obj({})>> }),
    Obj({ <<"error_code", Num(0)>>, <<"data", Obj({ <<"image_url", Str(<<>>)>> })>> }),
    Obj({ <<"error_code", Num(0)>>, <<"data", Obj({ <<"image_url", ImageUrl>> })>> }) }

\* The bytes the second-hop GET can return.
Downloads == { Buf(<<255, 216, 255>>), Buf(<<>>) }

Paths == {"/", RemoveBg, EnhanceImage, "/api/unknown"}

\* -------------------------------------------------------------------- state
Slots == {"r1"}

\* The limiter's counter is followed up to MaxHits requests per window.
MaxHits == 52

Idle ==
  [ pc |-> "idle", path |-> "", upload |-> NoFile, file |-> NoFile,
    by |-> "", calls |-> <<>>, results |-> <<>>, sent |-> <<>> ]

Init ==
  /\ RAPIDAPI_KEY \in Keys
  /\ hits = 0
  /\ req = [r \in Slots |-> Idle]

Resolved(data) == [t |-> "resolved", data |-> data]
Rejected(error) == [t |-> "rejected", error |-> error]

\* res.json / res.send end the request.
Answer(q, by, resp) ==
  [q EXCEPT !.pc = "done", !.by = by, !.sent = Append(q.sent, resp)]

BadSettle(q, step) ==
  IF step.t = "respond"
  THEN IF \E r \in DOMAIN req : /\ req[r].pc = "done" /\ req[r].path = q.path
                                /\ req[r].sent[1].status = 200
       THEN Answer(q, "handler",
              req[CHOOSE r \in DOMAIN req : /\ req[r].pc = "done" /\ req[r].path = q.path
                                           /\ req[r].sent[1].status = 200].sent[1])
       ELSE Answer(q, "handler", step.resp)
  ELSE IF step.t = "throw" THEN Answer(q, "handler", catch(q.path, step.error))
  ELSE [q EXCEPT !.pc = IF step.call.method = "POST" THEN "post" ELSE "get",
                 !.by = "handler",
                 !.calls = Append(q.calls, step.call)]
\* What a handler step does to its request: the exception goes through the
\* catch block of the handler, the call suspends the handler.
Settle(q, step) ==
  IF step.t = "respond" THEN Answer(q, "handler", step.resp)
  ELSE IF step.t = "throw" THEN Answer(q, "handler", catch(q.path, step.error))
  ELSE [q EXCEPT !.pc = IF step.call.method = "POST" THEN "post" ELSE "get",
                 !.by = "handler",
                 !.calls = Append(q.calls, step.call)]

\* A request arrives: app.get('/'), or app.use('/api/', limiter) followed by
\* the route, or by the 404 handler when no route matches.
Receive(r, path, upload) ==
  /\ req[r].pc = "idle"
  /\ LET q == [req[r] EXCEPT !.path = path, !.upload = upload] IN
     IF path = "/"
     THEN /\ req' = [req EXCEPT ![r] = Answer(q, "route", health)]
          /\ UNCHANGED hits
     ELSE /\ hits < MaxHits
          /\ hits' = hits + 1
          /\ req' = [req EXCEPT ![r] =
               IF limiterRefuses(hits + 1) THEN Answer(q, "limiter", limiterResponse)
               ELSE IF path \notin Endpoints THEN Answer(q, "route", notFound)
               ELSE [q EXCEPT !.pc = "upload"]]
  /\ UNCHANGED RAPIDAPI_KEY

\* upload.single('file'): the file filter, then the size limit; a rejection
\* goes to the error handler middleware, anything else to the route handler.
UploadSingle(r) ==
  /\ req[r].pc = "upload"
  /\ LET q == req[r] IN
     req' = [req EXCEPT ![r] =
       IF q.upload = NoFile THEN [q EXCEPT !.pc = "handler"]
       ELSE IF ~fileFilter(q.upload)
         THEN Answer(q, "errorHandler", errorHandler(
                Str(<<"Invalid file type. Only JPEG, PNG, and WebP are allowed.">>)))
       ELSE IF ~withinFileSize(q.upload)
         THEN Answer(q, "errorHandler", errorHandler(Str(<<"File too large">>)))
       ELSE [q EXCEPT !.pc = "handler", !.file = q.upload]]
  /\ UNCHANGED <<RAPIDAPI_KEY, hits>>

\* The route handler runs up to its await of axios.post.
Handler(r) ==
  /\ req[r].pc = "handler"
  /\ req' = [req EXCEPT ![r] =
       Settle(req[r], entry(req[r].path, req[r].file, RAPIDAPI_KEY))]
  /\ UNCHANGED <<RAPIDAPI_KEY, hits>>

\* axios.post resolves with a 2xx response carrying data.
PostResolves(r, data) ==
  /\ req[r].pc = "post"
  /\ LET q == [req[r] EXCEPT !.results = Append(req[r].results, Resolved(data))] IN
     req' = [req EXCEPT ![r] =
       Settle(q, IF q.path = RemoveBg THEN removeBgExtract(data)
                 ELSE enhanceEnvelope(data))]
  /\ UNCHANGED <<RAPIDAPI_KEY, hits>>

\* axios.post rejects: the catch block answers.
PostRejects(r, error) ==
  /\ req[r].pc = "post"
  /\ LET q == [req[r] EXCEPT !.results = Append(req[r].results, Rejected(error))] IN
     req' = [req EXCEPT ![r] = Settle(q, Throw(error))]
  /\ UNCHANGED <<RAPIDAPI_KEY, hits>>

\* axios.get resolves with the bytes of the enhanced image.
GetResolves(r, data) ==
  /\ req[r].pc = "get"
  /\ LET q == [req[r] EXCEPT !.results = Append(req[r].results, Resolved(data))] IN
     req' = [req EXCEPT ![r] = Settle(q, enhanceSend(data))]
  /\ UNCHANGED <<RAPIDAPI_KEY, hits>>

\* axios.get rejects: the catch block answers.
GetRejects(r, error) ==
  /\ req[r].pc = "get"
  /\ LET q == [req[r] EXCEPT !.results = Append(req[r].results, Rejected(error))] IN
     req' = [req EXCEPT ![r] = Settle(q, Throw(error))]
  /\ UNCHANGED <<RAPIDAPI_KEY, hits>>

\* The response has gone out and the request's objects are dropped.
Finish(r) ==
  /\ req[r].pc = "done"
  /\ req' = [req EXCEPT ![r] = Idle]
  /\ UNCHANGED <<RAPIDAPI_KEY, hits>>

\* windowMs has passed: the limiter's counter starts again.
WindowExpires ==
  /\ hits > 0
  /\ hits' = 0
  /\ UNCHANGED <<RAPIDAPI_KEY, req>>

Next ==
  \/ \E r \in Slots, path \in Paths, upload \in Uploads : Receive(r, path, upload)
  \/ \E r \in Slots : UploadSingle(r)
  \/ \E r \in Slots : Handler(r)
  \/ \E r \in Slots, data \in RemoveBodies \cup EnhanceBodies : PostResolves(r, data)
  \/ \E r \in Slots, error \in AxiosErrors : PostRejects(r, error)
  \/ \E r \in Slots, data \in Downloads : GetResolves(r, data)
  \/ \E r \in Slots, error \in AxiosErrors : GetRejects(r, error)
  \/ \E r \in Slots : Finish(r)
  \/ WindowExpires

Spec == Init /\ [][Next]_vars

\* ------------------------------------------------------------------ queries
\* The requests that have been answered.
Answered == { r \in Slots : req[r].pc = "done" }

\* The outcome of the request's last outbound call.
LastResult(q) == q.results[Len(q.results)]

\* The request's last outbound call was rejected.
Failed(q) == q.results # <<>> /\ LastResult(q).t = "rejected"

\* The request got exactly the response resp.
AnsweredWith(q, resp) == q.sent = <<resp>>

\* The request got exactly one response, a JSON body with this status and
\* this error.
JsonError(q, status, error) ==
  /\ Len(q.sent) = 1
  /\ q.sent[1].status = status
  /\ q.sent[1].contentType = "application/json"
  /\ q.sent[1].body.t = "json"
  /\ q.sent[1].body.error = Str(<<error>>)

\* ----------------------------------------------------------------------- C1
\* The message fixed for an upstream status.
FixedMessage(ep, status) ==
  CASE status = 400 -> "Invalid image format or corrupted file"
    [] status \in {401, 403} -> "API authentication error. Please check your API key"
    [] status = 429 -> "API rate limit exceeded. Please try again later"
    [] status = 500 -> "AI processing error. Please try again"
    [] status = 503 -> "Service temporarily unavailable. Please try again in a moment"
    [] OTHER -> IF ep = RemoveBg THEN "Background removal failed"
                ELSE "Image enhancement failed"

\* C1: on both endpoints, when the last outbound call failed with an upstream
\* HTTP response of status S, the request is answered once, with status S and
\* a JSON body whose error is the message fixed for S, whatever error code
\* the failure carries.
C1_UpstreamStatusPreserved ==
  \A r \in Answered :
    LET q == req[r] IN
    (Failed(q) /\ LastResult(q).error.response # Undefined) =>
      JsonError(q, LastResult(q).error.response.status,
                FixedMessage(q.path, LastResult(q).error.response.status))

\* An upstream 403 that also carries ECONNABORTED is answered with 403 and
\* the authentication message, on the second hop of an enhancement.
C1_Witness ==
  \E r \in Answered :
    LET q == req[r] IN
    /\ q.path = EnhanceImage
    /\ Len(q.results) = 2
    /\ Failed(q)
    /\ LastResult(q).error.response # Undefined
    /\ LastResult(q).error.response.status = 403
    /\ LastResult(q).error.code = Str(<<"ECONNABORTED">>)
    /\ JsonError(q, 403, "API authentication error. Please check your API key")

\* ----------------------------------------------------------------------- C2
\* data.results[0].entities[0].image exists and is a string.
HasImageString(data) ==
  /\ data.t = "object"
  /\ Get(data, "results").t = "array"
  /\ Len(Get(data, "results").items) > 0
  /\ Get(data, "results").items[1].t = "object"
  /\ Get(Get(data, "results").items[1], "entities").t = "array"
  /\ Len(Get(Get(data, "results").items[1], "entities").items) > 0
  /\ Get(Get(data, "results").items[1], "entities").items[1].t = "object"
  /\ Get(Get(Get(data, "results").items[1], "entities").items[1], "image").t = "string"

\* C2: on the removal endpoint, a successful POST whose body has no string at
\* results[0].entities[0].image is answered with 500 and 'Invalid API
\* response format'.
C2_MalformedIsInvalidFormat ==
  \A r \in Answered :
    LET q == req[r] IN
    (q.path = RemoveBg /\ q.results # <<>> /\ q.results[1].t = "resolved"
       /\ ~HasImageString(q.results[1].data)) =>
      JsonError(q, 500, "Invalid API response format")

\* ----------------------------------------------------------------------- C3
\* C3: on both endpoints, a failure of the last outbound call in which the
\* upstream was unreachable (no response, not a timeout) is answered with 503
\* and 'Service unavailable'.
C3_UnreachableIs503 ==
  \A r \in Answered :
    LET q == req[r] IN
    (Failed(q) /\ LastResult(q).error.cause = "unreachable") =>
      JsonError(q, 503, "Service unavailable")

\* ----------------------------------------------------------------------- C4
\* The requests that carried a file to upload.single and have left it.
Filtered ==
  { r \in Slots : /\ req[r].path \in Endpoints
                  /\ req[r].upload # NoFile
                  /\ req[r].pc \notin {"idle", "upload"}
                  /\ req[r].by # "limiter" }

\* Intake let the request through to the route handler.
Accepted(q) == q.by # "errorHandler"

\* C4 as stated: a file is accepted if and only if its declared type is
\* image/jpeg, image/png or image/webp and it has at most 10 MiB, and every
\* file that reaches a handler is of this kind.
C4_ThreeTypesOnly ==
  \A r \in Filtered :
    LET q == req[r] IN
    /\ Accepted(q) <=> (/\ q.upload.mimetype \in {"image/jpeg", "image/png", "image/webp"}
                        /\ q.upload.size <= 10485760)
    /\ q.file # NoFile =>
         /\ q.file.mimetype \in {"image/jpeg", "image/png", "image/webp"}
         /\ q.file.size <= 10485760

\* C4, amended: a file is accepted if and only if its declared type is
\* image/jpeg, image/png, image/jpg or image/webp and it has at most 10 MiB;
\* a rejected file gets the error handler's 500, never reaches a handler and
\* causes no outbound call; every file that reaches a handler is of this
\* kind.
C4_FourTypesOnly ==
  \A r \in Filtered :
    LET q == req[r] IN
    /\ Accepted(q) <=>
         (/\ q.upload.mimetype \in {"image/jpeg", "image/png", "image/jpg", "image/webp"}
          /\ q.upload.size <= 10485760)
    /\ ~Accepted(q) =>
         /\ q.pc = "done" /\ q.file = NoFile /\ q.calls = <<>>
         /\ Len(q.sent) = 1 /\ q.sent[1].status = 500
    /\ Accepted(q) => q.file = q.upload
    /\ q.file # NoFile =>
         /\ q.file.mimetype \in {"image/jpeg", "image/png", "image/jpg", "image/webp"}
         /\ q.file.size <= 10485760

\* A file of exactly 10 MiB declared image/jpg has reached the provider, and
\* (in another run) one byte more has been rejected.
C4_Witness ==
  \E r \in Filtered :
    LET q == req[r] IN
    /\ q.upload = [mimetype |-> "image/jpg", size |-> 10485760]
    /\ Accepted(q)
    /\ Len(q.calls) = 1 /\ q.calls[1].image = q.upload

\* ----------------------------------------------------------------------- C5
\* A success that is fully binary, or a failure that is fully JSON.
FullyBinary(resp) ==
  /\ resp.contentType \in {"image/png", "image/jpeg"}
  /\ resp.disposition = "attachment"
  /\ resp.body.t = "buffer"

FullyJson(resp) ==
  /\ resp.contentType = "application/json"
  /\ resp.body.t = "json"
  /\ resp.body.error.t = "string"

\* C5: every answered request got exactly one response and no request in
\* progress has one; on the two image endpoints the response is a fully
\* binary success or a fully JSON failure with a string error, also when
\* Intake or the rate limiter refused the request.
C5_OneResponseBinaryOrJson ==
  \A r \in Slots :
    LET q == req[r] IN
    /\ q.pc = "done" => Len(q.sent) = 1
    /\ q.pc # "done" => q.sent = <<>>
    /\ (q.pc = "done" /\ q.path \in Endpoints) =>
         \/ q.sent[1].status = 200 /\ FullyBinary(q.sent[1])
         \/ q.sent[1].status >= 400 /\ FullyJson(q.sent[1])

C7_NoKeyIs500 ==
  Falsy(RAPIDAPI_KEY) =>
    \A r \in Slots :
      LET q == req[r] IN
      /\ q.calls = <<>> /\ q.pc \notin {"post", "get"}
      /\ (q.pc = "done" /\ q.by = "handler" /\ q.file # NoFile) =>
           AnsweredWith(q, Json(500, Str(<<"API key not configured">>),
                                Undefined, Undefined))
      /\ (q.pc = "done" /\ q.path = "/") => AnsweredWith(q, health)

\* With the key unset, a request with an accepted file has been answered
\* after an earlier request to /api/ had been.
C7_Witness ==
  \E r \in Answered :
    /\ RAPIDAPI_KEY = Undefined
    /\ hits >= 2
    /\ req[r].path = RemoveBg /\ req[r].file # NoFile
    /\ req[r].sent[1].status = 500

\* ----------------------------------------------------------------------- C8
\* C8: on both endpoints, when the last outbound call (the POST, or the GET
\* of an enhancement) timed out, the request is answered once with 504,
\* 'Request timeout' and the advice to retry with a smaller image; the call
\* that timed out is the request's last call and no image is sent.
C8_TimeoutIs504 ==
  \A r \in Answered :
    LET q == req[r] IN
    (Failed(q) /\ LastResult(q).error.cause = "timeout") =>
      /\ JsonError(q, 504, "Request timeout")
      /\ q.sent[1].body.message =
           Str(<<"The AI processing took too long. Please try with a smaller image.">>)
      /\ q.sent[1].disposition = ""
      /\ Len(q.calls) = Len(q.results)

\* The POST of an enhancement timed out: 504 and no GET.
C8_Witness ==
  \E r \in Answered :
    LET q == req[r] IN
    /\ q.path = EnhanceImage
    /\ q.results = <<Rejected(TimeoutError)>>
    /\ Len(q.calls) = 1 /\ q.calls[1].method = "POST"
    /\ q.sent[1].status = 504

\* ----------------------------------------------------------------------- C9
\* s has sub as a run of consecutive tokens.
Contains(s, sub) ==
  \E i \in 1..(Len(s) - Len(sub) + 1) : SubSeq(s, i, i + Len(sub) - 1) = sub

\* v is a string holding four or more consecutive characters of the key.
LeaksKey(v) ==
  /\ v.t = "string"
  /\ RAPIDAPI_KEY.t = "string"
  /\ \E i, j \in 1..Len(RAPIDAPI_KEY.chars) :
       j >= i + 3 /\ Contains(v.chars, SubSeq(RAPIDAPI_KEY.chars, i, j))

\* The fixed strings of the error responses.
FixedStrings ==
  { Str(<<m>>) : m \in
    { "No file uploaded", "API key not configured", "Invalid API response format",
      "Image enhancement failed", "Background removal failed",
      "No enhanced image URL returned",
      "Invalid image format or corrupted file",
      "API authentication error. Please check your API key",
      "API rate limit exceeded. Please try again later",
      "AI processing error. Please try again",
      "Service temporarily unavailable. Please try again in a moment",
      "Request timeout", "Service unavailable", "Internal server error",
      "The AI processing took too long. Please try with a smaller image.",
      "Unable to connect to background removal service. Please try again later.",
      "Unable to connect to image enhancement service. Please try again later.",
      "Invalid file type. Only JPEG, PNG, and WebP are allowed.",
      "File too large", "Endpoint not found",
      "The first argument must be of type string",
      "Cannot read properties (reading 'results')",
      "Cannot read properties (reading 'error_detail')" } }

\* What the upstream's responses and the transport errors of a request say.
UpstreamStrings(q) ==
  { OptGet(q.results[i].error.response.data, "message") :
      i \in { k \in 1..Len(q.results) : /\ q.results[k].t = "rejected"
                                        /\ q.results[k].error.response # Undefined } }
  \cup { q.results[i].error.message :
           i \in { k \in 1..Len(q.results) : q.results[k].t = "rejected" } }
  \cup { OptGet(OptGet(q.results[i].data, "error_detail"), "message") :
           i \in { k \in 1..Len(q.results) : q.results[k].t = "resolved" } }

\* The responses a handler sends for this file and these outcomes of its
\* outbound calls when the key is key.
RunWith(path, file, results, key) ==
  LET first == entry(path, file, key) IN
  IF first.t = "respond" THEN <<first.resp>>
  ELSE IF results[1].t = "rejected" THEN <<catch(path, results[1].error)>>
  ELSE LET second == IF path = RemoveBg THEN removeBgExtract(results[1].data)
                     ELSE enhanceEnvelope(results[1].data) IN
    IF second.t = "respond" THEN <<second.resp>>
    ELSE IF second.t = "throw" THEN <<catch(path, second.error)>>
    ELSE IF results[2].t = "rejected" THEN <<catch(path, results[2].error)>>
    ELSE <<enhanceSend(results[2].data).resp>>

\* The other key of the model.
OtherKey == IF RAPIDAPI_KEY = KeyA THEN KeyB ELSE KeyA

\* C9: in every response sent, each of error, details and message is absent
\* or a fixed string or a string of the request's upstream responses or
\* transport errors, and holds no part of the API key; a text body holds no
\* part of the key either; and a handler's response under one key is the
\* response it gives under the other key to the same file and the same
\* upstream outcomes.
C9_NoKeyInResponses ==
  \A r \in Slots :
    /\ \A i \in 1..Len(req[r].sent) :
         LET body == req[r].sent[i].body IN
         /\ body.t = "json" =>
              \A v \in {body.error, body.details, body.message} :
                /\ v \in {Undefined} \cup FixedStrings \cup UpstreamStrings(req[r])
                /\ ~LeaksKey(v)
         /\ body.t = "string" => ~LeaksKey(body)
    /\ (req[r].pc = "done" /\ req[r].by = "handler" /\ RAPIDAPI_KEY \in {KeyA, KeyB}) =>
         req[r].sent = RunWith(req[r].path, req[r].file, req[r].results, OtherKey)

\* An upstream 401 with an empty body has been answered, with a key set, by
\* 401, the authentication message and the transport error's message.
C9_Witness ==
  \E r \in Answered :
    LET q == req[r] IN
    /\ RAPIDAPI_KEY = KeyA
    /\ Failed(q)
    /\ LastResult(q).error.response = Response(401, Str(<<>>))
    /\ JsonError(q, 401, "API authentication error. Please check your API key")
    /\ q.sent[1].body.details = LastResult(q).error.message

\* ---------------------------------------------------------------------- C10
\* C10: a removal whose POST succeeded with a base64 string at
\* results[0].entities[0].image is answered with 200, image/png, attachment
\* and the bytes whose base64 encoding is that string; an enhancement whose
\* POST and GET both succeeded is answered with 200, image/jpeg, attachment
\* and the bytes of the GET, which went to data.image_url.
C10_BytesPassedThrough ==
  \A r \in Answered :
    LET q == req[r] IN
    /\ (q.path = RemoveBg /\ q.results # <<>> /\ q.results[1].t = "resolved"
          /\ HasImageString(q.results[1].data)) =>
         /\ Len(q.sent) = 1
         /\ q.sent[1].status = 200
         /\ q.sent[1].contentType = "image/png"
         /\ q.sent[1].disposition = "attachment"
         /\ q.sent[1].body.t = "buffer"
         /\ Base64Encode(q.sent[1].body.bytes) =
              Get(Get(Get(q.results[1].data, "results").items[1],
                      "entities").items[1], "image").chars
    /\ (q.path = EnhanceImage /\ Len(q.results) = 2 /\ q.results[2].t = "resolved") =>
         /\ Len(q.sent) = 1
         /\ q.sent[1].status = 200
         /\ q.sent[1].contentType = "image/jpeg"
         /\ q.sent[1].disposition = "attachment"
         /\ q.sent[1].body = q.results[2].data
         /\ q.calls[2].method = "GET"
         /\ q.calls[2].url = Get(Get(q.results[1].data, "data"), "image_url")

\* A removal has sent the bytes 65, 66, 67 for the image "QUJD".
C10_Witness ==
  \E r \in Answered :
    LET q == req[r] IN
    /\ q.path = RemoveBg
    /\ q.results = <<Resolved(Removal(Entity(Str(<<"Q", "U", "J", "D">>))))>>
    /\ q.sent[1].body = Buf(<<65, 66, 67>>)

\* ---------------------------------------------------------------------- C11
\* The requests to the enhancement endpoint whose provider POST succeeded and
\* that have been answered.
EnhancedAnswered ==
  { r \in Answered : /\ req[r].path = EnhanceImage
                     /\ req[r].results # <<>>
                     /\ req[r].results[1].t = "resolved" }

\* C11: on the enhancement endpoint, after a successful POST, a body whose
\* error_code is not 0 (absent included) is answered with 500, 'Image
\* enhancement failed' and the provider's error_detail message as details;
\* otherwise a body whose data.image_url is absent or empty is answered with
\* 500 and 'No enhanced image URL returned'; in both cases the POST is the
\* request's only outbound call.
C11_EnvelopeErrors ==
  \A r \in EnhancedAnswered :
    LET q == req[r]
        data == q.results[1].data
    IN
    IF OptGet(data, "error_code") # Num(0)
    THEN /\ JsonError(q, 500, "Image enhancement failed")
         /\ q.sent[1].body.details = OptGet(OptGet(data, "error_detail"), "message")
         /\ Len(q.calls) = 1
    ELSE Falsy(OptGet(OptGet(data, "data"), "image_url")) =>
         /\ JsonError(q, 500, "No enhanced image URL returned")
         /\ Len(q.calls) = 1

\* ---------------------------------------------------------------------- C12
\* C12: a request makes at most one POST, first, and only an enhancement
\* makes a second call, one GET of data.image_url, issued only after its POST
\* succeeded with error_code 0 and an image URL; a call that failed is the
\* request's last call; a call is pending exactly while the handler is
\* suspended on it; and the response, a single one, is sent only when every
\* call of the request has completed or failed.
C12_CallsBoundedAndOrdered ==
  \A r \in DOMAIN req :
    LET q == req[r] IN
    /\ Len(q.calls) <= (IF q.path = EnhanceImage THEN 2
                        ELSE IF q.path = RemoveBg THEN 1 ELSE 0)
    /\ Len(q.calls) >= 1 => q.calls[1].method = "POST"
    /\ Len(q.calls) = 2 =>
         /\ q.calls[2].method = "GET"
         /\ q.results # <<>> /\ q.results[1].t = "resolved"
         /\ OptGet(q.results[1].data, "error_code") = Num(0)
         /\ ~Falsy(OptGet(OptGet(q.results[1].data, "data"), "image_url"))
         /\ q.calls[2].url = OptGet(OptGet(q.results[1].data, "data"), "image_url")
    /\ Len(q.calls) = Len(q.results) + (IF q.pc \in {"post", "get"} THEN 1 ELSE 0)
    /\ q.pc = "post" => Len(q.calls) = 1
    /\ q.pc = "get" => Len(q.calls) = 2
    /\ \A i \in 1..Len(q.results) : q.results[i].t = "rejected" => Len(q.calls) = i
    /\ q.sent # <<>> => Len(q.sent) = 1 /\ Len(q.calls) = Len(q.results)

\* An enhancement whose POST succeeded and whose GET failed with an upstream
\* 503 has been answered after two calls.
C12_Witness ==
  \E r \in DOMAIN req :
    LET q == req[r] IN
    /\ q.pc = "done" /\ q.path = EnhanceImage
    /\ Len(q.calls) = 2 /\ Len(q.results) = 2
    /\ q.results[1].t = "resolved" /\ q.results[2].t = "rejected"
    /\ q.results[2].error.response # Undefined
    /\ q.results[2].error.response.status = 503
    /\ q.sent[1].status = 503

\* ------------------------------------------------- two requests in progress
\* Two requests to the image endpoints handled at the same time, their steps
\* interleaved in every order, with a few inputs of each kind.
ConcSlots == {"r1", "r2"}

ConcUploads ==
  { NoFile, [mimetype |-> "image/png", size |-> 2048],
    [mimetype |-> "image/gif", size |-> 2048] }

ConcBodies ==
  { Removal(Entity(Str(<<"Q", "U", "J", "D">>))), Obj({}),
    Obj({ <<"error_code", Num(1)>> }),
    Obj({ <<"error_code", Num(0)>>, <<"data", Obj({ <<"image_url", ImageUrl>> })>> }) }

ConcErrors == { TimeoutError, HttpError(401, Str(<<>>), "ERR_BAD_REQUEST") }

ConcDownloads == { Buf(<<255, 216, 255>>) }

InitConc ==
  /\ RAPIDAPI_KEY \in Keys
  /\ hits = 0
  /\ req = [r \in ConcSlots |-> Idle]

NextConc ==
  \/ \E r \in ConcSlots, path \in Endpoints, upload \in ConcUploads :
       Receive(r, path, upload)
  \/ \E r \in ConcSlots : UploadSingle(r)
  \/ \E r \in ConcSlots : Handler(r)
  \/ \E r \in ConcSlots, data \in ConcBodies : PostResolves(r, data)
  \/ \E r \in ConcSlots, error \in ConcErrors : PostRejects(r, error)
  \/ \E r \in ConcSlots, data \in ConcDownloads : GetResolves(r, data)
  \/ \E r \in ConcSlots, error \in ConcErrors : GetRejects(r, error)
  \/ \E r \in ConcSlots : Finish(r)
  \/ WindowExpires

SpecConc == InitConc /\ [][NextConc]_vars

\* ---------------------------------------------------------------------- C13
\* The responses a request to an image endpoint gets from Intake and its
\* handler, as a function of its own upload, the key and the outcomes of its
\* own outbound calls.
Outcome(path, upload, results, key) ==
  IF upload # NoFile /\ ~fileFilter(upload)
  THEN <<errorHandler(Str(<<"Invalid file type. Only JPEG, PNG, and WebP are allowed.">>))>>
  ELSE IF upload # NoFile /\ ~withinFileSize(upload)
  THEN <<errorHandler(Str(<<"File too large">>))>>
  ELSE RunWith(path, upload, results, key)

\* Every step a request in progress is waiting for can be taken, whatever
\* the other request is doing.
NeverBlocked ==
  \A r \in DOMAIN req :
    /\ req[r].pc = "upload" => ENABLED UploadSingle(r)
    /\ req[r].pc = "handler" => ENABLED Handler(r)
    /\ req[r].pc = "post" =>
         /\ ENABLED PostResolves(r, Obj({}))
         /\ ENABLED PostRejects(r, TimeoutError)
    /\ req[r].pc = "get" =>
         /\ ENABLED GetResolves(r, Buf(<<255, 216, 255>>))
         /\ ENABLED GetRejects(r, TimeoutError)
    /\ req[r].pc = "done" => ENABLED Finish(r)

OwnInputsOnceAdmitted ==
  /\ \A r \in DOMAIN req :
       req[r].pc = "done" =>
         IF req[r].by = "limiter"
         THEN req[r].sent = <<limiterResponse>> /\ req[r].calls = <<>>
         ELSE req[r].sent =
                Outcome(req[r].path, req[r].upload, req[r].results, RAPIDAPI_KEY)
  /\ \A r1, r2 \in DOMAIN req :
       (/\ req[r1].pc = "done" /\ req[r2].pc = "done"
        /\ req[r1].by # "limiter" /\ req[r2].by # "limiter"
        /\ req[r1].path = req[r2].path
        /\ req[r1].upload = req[r2].upload
        /\ req[r1].results = req[r2].results) => req[r1].sent = req[r2].sent
  /\ NeverBlocked

\* A request that arrives is refused by the limiter exactly when it is beyond
\* the 50th to reach /api/ in the window.
RefusedOnlyOverLimit ==
  \A r \in DOMAIN req :
    (req[r].pc = "idle" /\ req'[r].pc # "idle") =>
      (req'[r].by = "limiter" <=> hits' > 50)

====
